---- MODULE Spec2Model ----
(***************************************************************************)
(* State-machine model of UM/PluginRegistry.py (Uranium): the plugin       *)
(* registry object, the persisted plugins.json, the legacy preferences,    *)
(* the plugin folders on disk and the archive cache.                       *)
(*                                                                         *)
(* Every method of the registry is an operator from a world record         *)
(*   w = [cfg, reg, fs, prefs, obs, env, exc, ret, trace, faulted]         *)
(* to the world after the call; w.exc names the exception that is          *)
(* propagating ("none" when the call returns normally), w.ret the value    *)
(* returned and w.trace the events of the call (what it invoked, in        *)
(* order).  w.env holds the outcomes of the I/O the call performs (file    *)
(* lock, write, rmtree, ...), drawn by the action that makes the call, and *)
(* w.faulted tells whether one of them failed.                             *)
(* obs holds observations of the run (the last public call, what held of   *)
(* its argument when it began and how it ended, call counters); the        *)
(* registry never reads it.                                                *)
(*                                                                         *)
(* UM/Qt/ListModel.py is modelled beside it: items is the _items list of   *)
(* a ListModel and signals the Qt signals its last call emitted, in order. *)
(***************************************************************************)
EXTENDS Integers, Sequences, FiniteSets, TLC

VARIABLES cfg, reg, fs, prefs, obs, phase, items, signals

vars == <<cfg, reg, fs, prefs, obs, phase, items, signals>>

-----------------------------------------------------------------------------
(* Bounds *)

\* Saturation value of the observation counters (register calls, dispatches).
MaxCalls == 2
\* How many calls of one run meet a failing I/O operation (lock, read, write, rmtree,
\* extraction, cache removal).
MaxFaults == 1
\* The largest minor number of the plugin versions the compatibility check is tried on.
MaxMinor == 3

\* How many loadPlugins passes one process makes.
MaxPasses == 2
\* How many entries the append-only lists (_outdated_plugins, _distrusted_plugin_ids) may hold.
MaxAppend == 2
\* How many items a ListModel holds at most.
MaxLen == 3

-----------------------------------------------------------------------------
(* Universe *)

\* Plugin ids, in the order os.listdir reports their folders.
IdOrder == <<"a", "b">>
Ids == {IdOrder[i] : i \in 1..Len(IdOrder)}

\* Search roots: the application's installation prefix and the user's storage path.
InstallRoot == "install"
UserRoot == "user"

\* What a plugin package is like (its module, its descriptor, its signature).
Kinds == {"ok", "unsigned", "outdated", "noversion", "meta_raises",
          "reg_empty", "reg_raises", "import_fails"}

\* imp.load_module succeeds
ImportOk(k) == k # "import_fails"
\* plugin.getMetaData(): "ok" returns a dict, "raises" raises an exception other than
\* AttributeError and TypeError
MetaDataCall(k) == IF k = "meta_raises" THEN "raises" ELSE "ok"
\* plugin.json
Descriptor(k) == IF k = "noversion" THEN "noversion" ELSE "ok"
\* the signed-folder check succeeds on the plugin's folder
Signed(k) == k # "unsigned"
\* plugin.register(app): "one" returns {type: object}, "empty" returns {}, "raises" raises
Register(k) == CASE k = "reg_empty" -> "empty"
                 [] k = "reg_raises" -> "raises"
                 [] OTHER -> "one"

\* More packages, which differ in what plugin.register(app) returns.
RegisterKinds == {"reg_list", "reg_two_types", "reg_no_type", "reg_cb_raises",
                  "reg_empty_list", "reg_bad_object"}

\* What plugin.register(app) returns when it returns something: the items of the dict in
\* order, each a plugin type with the objects given for it (list: the value is a list).
ToRegister(k) ==
    CASE k = "reg_list" -> <<[type |-> "tool", list |-> TRUE, objs |-> <<"o1", "o2">>]>>
      [] k = "reg_two_types" -> <<[type |-> "tool", list |-> FALSE, objs |-> <<"o1">>],
                                 [type |-> "view", list |-> FALSE, objs |-> <<"o2">>]>>
      [] k = "reg_no_type" -> <<[type |-> "unknown", list |-> FALSE, objs |-> <<"o1">>],
                               [type |-> "tool", list |-> TRUE, objs |-> <<"o2", "o3">>]>>
      [] k = "reg_cb_raises" -> <<[type |-> "broken", list |-> TRUE, objs |-> <<"o1", "o2">>],
                                 [type |-> "tool", list |-> FALSE, objs |-> <<"o3">>]>>
      [] k = "reg_empty_list" -> <<[type |-> "tool", list |-> TRUE, objs |-> <<>>]>>
      [] k = "reg_bad_object" -> <<[type |-> "tool", list |-> TRUE, objs |-> <<"o1", "bad">>],
                                  [type |-> "view", list |-> FALSE, objs |-> <<"o2">>]>>
      [] OTHER -> <<[type |-> "tool", list |-> FALSE, objs |-> <<"o1">>]>>

\* _type_register_map: "tool" and "view" have a callback, the callback of "broken" raises,
\* every other type has none.
TypeCallback(type) ==
    CASE type \in {"tool", "view"} -> "ok"
      [] type = "broken" -> "raises"
      [] OTHER -> "none"

\* the object has setVersion, setMetaData and setPluginId
IsPluginObject(o) == o # "bad"

\* Versions are <<major, minor>>.
getMajor(v) == v[1]
getMinor(v) == v[2]
\* Version("0")
VersionZero == <<0, 0>>
\* What a descriptor may declare as supported: the host's major with minor 0 ("ok"), the
\* next major ("outdated"), the host's major with the next minor ("newer_minor"), the next
\* major in supported_sdk_versions and the host's major in api ("either"), or nothing
\* valid at all ("noversion").
VersionKinds == {"ok", "outdated", "newer_minor", "either", "noversion"}

\* The versions the descriptor declares (supported_sdk_versions + api), relative to the host's.
DeclaredVersions(k, host) ==
    CASE k = "outdated" -> << <<getMajor(host) + 1, 0>> >>
      [] k = "newer_minor" -> << <<getMajor(host), getMinor(host) + 1>> >>
      [] k = "either" -> << <<getMajor(host) + 1, 0>>, <<getMajor(host), 0>> >>
      [] OTHER -> << <<getMajor(host), 0>> >>

-----------------------------------------------------------------------------
(* Sequence helpers: Python list operations *)

Range(s) == {s[i] : i \in 1..Len(s)}

\* x in list
In(x, s) == x \in Range(s)

RECURSIVE RemoveFirst(_, _)
\* list.remove(x): removes the first occurrence
RemoveFirst(s, x) ==
    IF s = <<>> THEN <<>>
    ELSE IF Head(s) = x THEN Tail(s)
    ELSE <<Head(s)>> \o RemoveFirst(Tail(s), x)

\* if x not in list: list.append(x)
\* A faulty variant: the append without the membership test.
AppendAlways(s, x) == Append(s, x)

AppendNew(s, x) == IF In(x, s) THEN s ELSE Append(s, x)

RECURSIVE FilterSeq(_, _)
\* the entries of s that are in set S, in order
FilterSeq(s, S) ==
    IF s = <<>> THEN <<>>
    ELSE IF Head(s) \in S THEN <<Head(s)>> \o FilterSeq(Tail(s), S)
    ELSE FilterSeq(Tail(s), S)

NoDuplicates(s) == \A i, j \in 1..Len(s) : i # j => s[i] # s[j]

Inc(n) == IF n < MaxCalls THEN n + 1 ELSE n

\* local = value; rest: the value is computed once and rest(local) follows
Let(value, rest(_)) == CHOOSE r \in {rest(local) : local \in {value}} : TRUE

\* dict: a function whose domain is the set of keys
EmptyDict == [k \in {} |-> TRUE]
DictSet(d, k, v) == [x \in DOMAIN d \cup {k} |-> IF x = k THEN v ELSE d[x]]
DictDel(d, k) == [x \in DOMAIN d \ {k} |-> d[x]]

-----------------------------------------------------------------------------
(* Observations *)

Emit(w, ev) == [w EXCEPT !.trace = Append(@, ev)]

\* A public call begins: what is called, and whether its argument was loaded and was
\* pending removal at that moment.
Begin(w, name, arg) ==
    [w EXCEPT !.obs.op = <<name, arg>>,
              !.obs.wasLoaded = arg \in w.reg.plugins,
              !.obs.wasPendingRemoval = In(arg, w.reg.plugins_to_remove)]

Raise(w, e) == [w EXCEPT !.exc = e]

Return(w, v) == [w EXCEPT !.ret = v]

\* An I/O operation of the call failed.
Fault(w) == [w EXCEPT !.faulted = TRUE]

-----------------------------------------------------------------------------
(* plugins.json *)

\* cache_plugin_filename
CacheFile(id) == id \o ".plugin"

\* install_info
InstallInfo(id) == [plugin_id |-> id, filename |-> CacheFile(id)]

\* json.dumps of a dict: the object's members
JsonObject(d) == {[k |-> x, v |-> d[x]] : x \in DOMAIN d}
\* json.load of an object: a dict
JsonDict(o) == [x \in {m.k : m \in o} |-> (CHOOSE m \in o : m.k = x).v]

NoData == [disabled |-> <<>>, to_install |-> {}, to_remove |-> <<>>]

\* the data _savePluginData writes
JsonDumps(r) ==
    [disabled |-> r.disabled_plugins,
     to_install |-> JsonObject(r.plugins_to_install),
     to_remove |-> r.plugins_to_remove]

\* _savePluginData: a failure is logged, never raised
SavePluginData(w) ==
    LET e == Emit(w, <<"persist", w.env.save>>) IN
    CASE w.env.save = "ok" ->
            [e EXCEPT !.fs.file = [state |-> "ok", data |-> JsonDumps(w.reg)],
                      !.obs.lostWrite = FALSE]
      [] w.env.save = "lock_fail" ->
            Fault([e EXCEPT !.obs.lostWrite = TRUE])
      [] OTHER -> \* the file was opened for writing (truncated) and the write failed
            Fault([e EXCEPT !.fs.file = [state |-> "corrupt", data |-> NoData],
                            !.obs.lostWrite = TRUE])

\* A faulty variant: the read that takes "disabled" for "to_remove" and the reverse.
ReadSwapped(w) ==
    IF w.fs.file.state = "absent" THEN w
    ELSE IF w.env.read = "fail" THEN Fault(w)
    ELSE IF w.fs.file.state = "corrupt" THEN w
    ELSE [w EXCEPT !.reg.disabled_plugins = w.fs.file.data.to_remove,
                   !.reg.plugins_to_install = JsonDict(w.fs.file.data.to_install),
                   !.reg.plugins_to_remove = w.fs.file.data.disabled]

\* initializeBeforePluginsAreLoaded, the part that reads plugins.json
ReadPluginData(w) ==
    IF w.fs.file.state = "absent" THEN w              \* first run
    ELSE IF w.env.read = "fail" THEN Fault(w)         \* the lock or the read failed: caught
    ELSE IF w.fs.file.state = "corrupt" THEN w        \* json.load raised: caught
    ELSE [w EXCEPT !.reg.disabled_plugins = w.fs.file.data.disabled,
                   !.reg.plugins_to_install = JsonDict(w.fs.file.data.to_install),
                   !.reg.plugins_to_remove = w.fs.file.data.to_remove]

-----------------------------------------------------------------------------
(* disablePlugin / enablePlugin *)

\* A faulty variant: disablePlugin without the save.
disablePluginUnsaved(w, id) ==
    [w EXCEPT !.reg.disabled_plugins = AppendNew(@, id)]

disablePlugin(w, id) ==
    SavePluginData([w EXCEPT !.reg.disabled_plugins = AppendNew(@, id)])

enablePlugin(w, id) ==
    SavePluginData([w EXCEPT !.reg.disabled_plugins = RemoveFirst(@, id)])

-----------------------------------------------------------------------------
(* installPlugin / uninstallPlugin *)

\* The archives a caller may hand to installPlugin.
Archives(ids) ==
    {[zip |-> z, top |-> id] : z \in {"good", "corrupt", "missing", "nodir"}, id \in ids}

\* _getPluginIdFromFile: the first directory entry's name; None (found = FALSE) for a
\* corrupt or missing archive and for one without a directory entry
getPluginIdFromFile(archive) ==
    IF archive.zip = "good" THEN [found |-> TRUE, id |-> archive.top]
    ELSE [found |-> FALSE, id |-> ""]

\* An archive that exists and cannot be opened (no permission, a directory, an I/O error).
Unreadable(ids) == {[zip |-> "unreadable", top |-> id] : id \in ids}

\* _getPluginIdFromFile catches BadZipFile and FileNotFoundError only: any other exception
\* of ZipFile() leaves it
IdentifyRaises(archive) == archive.zip = "unreadable"

\* A faulty variant: installPlugin that leaves a pending removal of the id in place.
installPluginKeepsRemoval(w, archive) ==
    LET got == getPluginIdFromFile(archive)
        id == got.id
    IN  IF ~got.found THEN Return(w, "None")
        ELSE LET w2 == [w EXCEPT !.fs.cache = @ \cup {id}]
                 w3 == [w2 EXCEPT !.reg.plugins_to_install = DictSet(@, id, InstallInfo(id))]
             IN  Return(SavePluginData(w3), "ok")

installPlugin(w, archive) ==
    LET got == getPluginIdFromFile(archive)
        id == got.id
    IN  IF IdentifyRaises(archive) THEN Raise(w, "PermissionError")
        ELSE IF ~got.found THEN Return(w, "None")
        ELSE LET \* remove it from the to-be-removed list if it's there
                 w1 == IF In(id, w.reg.plugins_to_remove)
                       THEN SavePluginData([w EXCEPT !.reg.plugins_to_remove = RemoveFirst(@, id)])
                       ELSE w
                 \* copy the plugin file to the cache directory
                 w2 == [w1 EXCEPT !.fs.cache = @ \cup {id}]
                 w3 == [w2 EXCEPT !.reg.plugins_to_install = DictSet(@, id, InstallInfo(id))]
             IN  Return(SavePluginData(w3), "ok")

\* A faulty variant: uninstallPlugin that deletes the plugin folder at once.
uninstallPluginDeletesNow(w, id) ==
    IF ~In(id, w.reg.plugins_installed) THEN Return(w, "error")
    ELSE LET w1 == SavePluginData([w EXCEPT !.reg.plugins_to_remove = AppendNew(@, id)])
         IN  Return([w1 EXCEPT !.reg.plugins = @ \ {id},
                               !.reg.plugins_installed = RemoveFirst(@, id),
                               !.fs.user[id] = "none"], "ok")

uninstallPlugin(w, id) ==
    IF ~In(id, w.reg.plugins_installed) THEN Return(w, "error")
    ELSE IF id \in DOMAIN w.reg.plugins_to_install
    THEN Return(SavePluginData([w EXCEPT !.reg.plugins_to_install = DictDel(@, id)]), "ok")
    ELSE LET w1 == SavePluginData([w EXCEPT !.reg.plugins_to_remove = AppendNew(@, id)])
         IN  Return([w1 EXCEPT !.reg.plugins = @ \ {id},
                               !.reg.plugins_installed = RemoveFirst(@, id)], "ok")

-----------------------------------------------------------------------------
(* The startup pass: initializeBeforePluginsAreLoaded *)

\* A faulty variant: _installPlugin that lets a missing archive raise.
InstallPluginFileRaises(w, id) ==
    LET w1 == Emit([w EXCEPT !.reg.bundled_plugin_cache = DictDel(@, id)], <<"install", id>>)
    IN  IF id \notin w1.fs.cache THEN Raise(w1, "FileNotFoundError")
        ELSE IF w1.env.extract = "open_fail" THEN Fault(w1)
        ELSE IF w1.env.extract = "extract_fail"
        THEN Fault([w1 EXCEPT !.fs.user[id] = "partial", !.fs.userdir = TRUE,
                              !.reg.disabled_plugins = RemoveFirst(@, id)])
        ELSE [w1 EXCEPT !.fs.user[id] = "ok", !.fs.userdir = TRUE,
                        !.reg.disabled_plugins = RemoveFirst(@, id)]

\* A faulty variant: the id is taken out of the disabled list only when the archive was
\* extracted.
InstallPluginFileEnablingOnSuccess(w, id) ==
    LET w1 == Emit([w EXCEPT !.reg.bundled_plugin_cache = DictDel(@, id)], <<"install", id>>)
    IN  IF id \notin w1.fs.cache THEN w1
        ELSE IF w1.env.extract = "open_fail" THEN Fault(w1)
        ELSE IF w1.env.extract = "extract_fail"
        THEN Fault([w1 EXCEPT !.fs.user[id] = "partial", !.fs.userdir = TRUE])
        ELSE [w1 EXCEPT !.fs.user[id] = "ok", !.fs.userdir = TRUE,
                        !.reg.disabled_plugins = RemoveFirst(@, id)]

\* _installPlugin: any failure is caught
InstallPluginFile(w, id) ==
    LET w1 == Emit([w EXCEPT !.reg.bundled_plugin_cache = DictDel(@, id)], <<"install", id>>)
        w2 == IF id \notin w1.fs.cache
              THEN w1                                      \* ZipFile() raised: no such file
              ELSE IF w1.env.extract = "open_fail"
              THEN Fault(w1)                               \* ZipFile() raised
              ELSE IF w1.env.extract = "extract_fail"
              THEN \* folder recreated (makedirs), extraction broke off
                   Fault([w1 EXCEPT !.fs.user[id] = "partial", !.fs.userdir = TRUE])
              ELSE [w1 EXCEPT !.fs.user[id] = "ok", !.fs.userdir = TRUE]
    IN  [w2 EXCEPT !.reg.disabled_plugins = RemoveFirst(@, id)]

\* A faulty variant: _removePlugin that ignores the errors of the deletion.
RemovePluginFolderIgnoringErrors(w, id) ==
    LET w1 == Emit(w, <<"remove", id>>) IN
    IF id \notin Ids
    THEN IF ~w1.fs.userdir THEN w1
         ELSE IF w1.env.rmtree = "fail" THEN Fault(w1)
         ELSE [w1 EXCEPT !.fs.user = [x \in Ids |-> "none"], !.fs.userdir = FALSE]
    ELSE IF w1.fs.user[id] = "none" THEN w1
    ELSE IF w1.env.rmtree = "fail" THEN Fault(w1)
    ELSE [w1 EXCEPT !.fs.user[id] = "none"]

\* _removePlugin: nothing is caught
RemovePluginFolder(w, id) ==
    IF id \in DOMAIN w.reg.bundled_plugin_cache
    THEN Raise(w, "AttributeError")     \* del self.bundled_plugin_cache[...]: no such attribute
    ELSE LET w1 == Emit(w, <<"remove", id>>) IN
         IF id \notin Ids
         THEN \* a blank id: the path is the plugin directory itself
              IF ~w1.fs.userdir THEN Raise(w1, "FileNotFoundError")
              ELSE IF w1.env.rmtree = "fail" THEN Fault(Raise(w1, "OSError"))
              ELSE [w1 EXCEPT !.fs.user = [x \in Ids |-> "none"], !.fs.userdir = FALSE]
         ELSE IF w1.fs.user[id] = "none" THEN Raise(w1, "FileNotFoundError")
         ELSE IF w1.env.rmtree = "fail" THEN Fault(Raise(w1, "OSError"))
         ELSE [w1 EXCEPT !.fs.user[id] = "none"]

RECURSIVE RemoveAll(_, _)
\* for plugin_id in self._plugins_to_remove: self._removePlugin(plugin_id)
RemoveAll(w, s) ==
    IF s = <<>> \/ w.exc # "none" THEN w
    ELSE RemoveAll(RemovePluginFolder(w, Head(s)), Tail(s))

RECURSIVE InstallAll(_, _)
\* for plugin_id, plugin_info in self._plugins_to_install.items(): self._installPlugin(...)
InstallAll(w, s) ==
    IF s = <<>> THEN w
    ELSE InstallAll(InstallPluginFile(w, Head(s)), Tail(s))

RECURSIVE AppendAllNew(_, _)
AppendAllNew(s, t) ==
    IF t = <<>> THEN s ELSE AppendAllNew(AppendNew(s, Head(t)), Tail(t))

\* A faulty variant: the merge that takes the legacy to-remove list only.
MergeLegacyToRemoveOnly(w) ==
    [w EXCEPT !.reg.plugins_to_remove = AppendAllNew(@, w.prefs.plugins_to_remove)]

\* the legacy preferences general/disabled_plugins and general/plugins_to_remove
MergeLegacy(w) ==
    LET disabled == FilterSeq(w.prefs.disabled_plugins, Ids)   \* blank entries dropped
        to_remove == w.prefs.plugins_to_remove                 \* split(","), not filtered
    IN  [w EXCEPT !.reg.disabled_plugins = AppendAllNew(@, disabled),
                  !.reg.plugins_to_remove = AppendAllNew(@, to_remove)]

\* the installations of the startup pass, and the save after them
StartupInstalls(w) ==
    Let(InstallAll(w, FilterSeq(IdOrder, DOMAIN w.reg.plugins_to_install)), LAMBDA w5 :
    SavePluginData(Emit([w5 EXCEPT !.reg.plugins_to_install = EmptyDict],
                        <<"clear_install", "">>)))

\* the removals of the startup pass, and the save after them
StartupRemovals(w) ==
    Let(RemoveAll(w, w.reg.plugins_to_remove), LAMBDA w3 :
    IF w3.exc # "none" THEN w3
    ELSE SavePluginData(Emit([w3 EXCEPT !.reg.plugins_to_remove = <<>>,
                                        !.prefs.plugins_to_remove = <<>>],
                             <<"clear_remove", "">>)))

\* A faulty variant: the startup pass with the installs before the removals.
startupInstallsFirst(w) ==
    Let(Emit(MergeLegacy(ReadPluginData(w)), <<"read", "">>), LAMBDA w2 :
    Let(StartupInstalls(w2), LAMBDA w7 :
    StartupRemovals(w7)))

initializeBeforePluginsAreLoaded(w) ==
    Let(Emit(MergeLegacy(ReadPluginData(w)), <<"read", "">>), LAMBDA w2 :
    Let(StartupRemovals(w2), LAMBDA w4 :
    IF w4.exc # "none" THEN w4 ELSE StartupInstalls(w4)))

\* initializeAfterPluginsAreLoaded: both legacy preferences are reset
initializeAfterPluginsAreLoaded(w) ==
    [w EXCEPT !.prefs.disabled_plugins = <<>>,
              !.prefs.plugins_to_remove = <<>>]

-----------------------------------------------------------------------------
(* Finding a plugin on disk *)

\* The folders under a search root that hold a plugin (plugin.json and __init__.py).
PluginFolders(w, root) ==
    IF root = InstallRoot THEN w.cfg.bundled
    ELSE {id \in Ids : w.fs.userdir /\ w.fs.user[id] = "ok"}

\* os.path.isdir(folder)
IsDir(w, folder) == folder = InstallRoot \/ w.fs.userdir

\* _locatePlugin: the world after the call (the root's folder cache is built on first use)
LocateW(w, id, folder) ==
    IF ~IsDir(w, folder) THEN w
    ELSE IF folder \in DOMAIN w.reg.plugin_folder_cache THEN w
    ELSE [w EXCEPT !.reg.plugin_folder_cache = DictSet(@, folder, PluginFolders(w, folder))]

\* _locatePlugin: whether a location is returned
LocateR(w, id, folder) ==
    /\ IsDir(w, folder)
    /\ id \in LocateW(w, id, folder).reg.plugin_folder_cache[folder]

RECURSIVE LocateFirst(_, _, _)
\* for folder in self._plugin_locations: location = self._locatePlugin(...); if location: break
LocateFirst(w, id, folders) ==
    IF folders = <<>> THEN [w |-> w, r |-> ""]
    ELSE IF LocateR(w, id, Head(folders))
    THEN [w |-> LocateW(w, id, Head(folders)), r |-> Head(folders)]
    ELSE LocateFirst(LocateW(w, id, Head(folders)), id, Tail(folders))

\* is_in_installation_path
InInstallPrefix(folder) == folder = InstallRoot

RECURSIVE BundledScan(_, _, _)
\* the loop of isBundledPlugin over the plugin locations
BundledScan(w, id, folders) ==
    IF folders = <<>> THEN [w |-> w, r |-> FALSE]
    ELSE LET dir == Head(folders)
             w1 == LocateW(w, id, dir)
             hit == LocateR(w, id, dir)
         IN  IF ~InInstallPrefix(dir)
             THEN IF w.reg.check_if_trusted
                  THEN IF hit THEN [w |-> w1, r |-> FALSE]
                       ELSE BundledScan(w1, id, Tail(folders))
                  ELSE BundledScan(w, id, Tail(folders))
             ELSE IF hit THEN [w |-> w1, r |-> TRUE]
                  ELSE BundledScan(w1, id, Tail(folders))

isBundledPlugin(w, id) ==
    IF id \in DOMAIN w.reg.bundled_plugin_cache
    THEN [w |-> w, r |-> w.reg.bundled_plugin_cache[id]]
    ELSE Let(BundledScan(w, id, w.reg.plugin_locations), LAMBDA s :
         [w |-> [s.w EXCEPT !.reg.bundled_plugin_cache = DictSet(@, id, s.r)], r |-> s.r])

\* imp.load_module, and the module cache
LoadModule(w, id) ==
    IF ImportOk(w.cfg.pkg[id])
    THEN [w |-> [w EXCEPT !.reg.found_plugins = @ \cup {id}], r |-> TRUE]
    ELSE [w |-> w, r |-> FALSE]

\* _findPlugin, the check of a plugin that is neither checked before nor bundled
TrustCheck(w, id) ==
    IF w.env.rmCached = "fail"
    THEN [w |-> Fault(Emit([w EXCEPT !.reg.distrusted_plugin_ids = Append(@, id)],
                           <<"removeCached", id>>)),
          r |-> FALSE]
    ELSE LET w1 == Emit(Emit(w, <<"removeCached", id>>), <<"signedFolderCheck", id>>)
         IN  IF Signed(w.cfg.pkg[id])
             THEN LoadModule([w1 EXCEPT !.reg.checked_plugin_ids = Append(@, id)], id)
             ELSE [w |-> [w1 EXCEPT !.reg.distrusted_plugin_ids = Append(@, id)], r |-> FALSE]

\* _findPlugin: r is TRUE when a module is returned, FALSE for None
findPlugin(w, id) ==
    IF id \in w.reg.found_plugins THEN [w |-> w, r |-> TRUE]
    ELSE Let(LocateFirst(w, id, w.reg.plugin_locations), LAMBDA loc :
         IF loc.r = "" THEN [w |-> loc.w, r |-> FALSE]
         ELSE IF loc.w.reg.check_if_trusted /\ ~In(id, loc.w.reg.checked_plugin_ids)
         THEN Let(isBundledPlugin(loc.w, id), LAMBDA b :
              IF ~b.r THEN TrustCheck(b.w, id) ELSE LoadModule(b.w, id))
         ELSE LoadModule(loc.w, id))

-----------------------------------------------------------------------------
(* Metadata *)

\* _populateMetaData with _parsePluginInfo: r is the returned bool; w.exc is set when it raises
populateMetaData(w, id) ==
    Let(findPlugin(w, id), LAMBDA f :
    IF ~f.r THEN [w |-> f.w, r |-> FALSE]
    ELSE Let(LocateFirst(f.w, id, f.w.reg.plugin_locations), LAMBDA loc :
         IF loc.r = "" THEN [w |-> loc.w, r |-> FALSE]
         ELSE IF MetaDataCall(w.cfg.pkg[id]) = "raises"
         THEN [w |-> Raise(loc.w, "Exception"), r |-> FALSE]
         ELSE \* open(metadata_file, "r") and file_stream.read()
              Let(Emit(loc.w, <<"readDescriptor", id>>), LAMBDA rd :
              IF Descriptor(w.cfg.pkg[id]) # "ok"
              THEN [w |-> Raise(rd, "InvalidMetaDataError"), r |-> FALSE]
              ELSE [w |-> [rd EXCEPT !.reg.metadata[id] = "valid"], r |-> TRUE])))

\* getMetaData: r is "valid" for the plugin's metadata and "empty" for {}
getMetaData(w, id) ==
    IF w.reg.metadata[id] = "absent"
    THEN Let(populateMetaData(w, id), LAMBDA p :
         IF p.w.exc = "InvalidMetaDataError" THEN [w |-> Raise(p.w, "none"), r |-> "empty"]
         ELSE IF p.w.exc # "none" THEN [w |-> p.w, r |-> "empty"]
         ELSE IF ~p.r THEN [w |-> p.w, r |-> "empty"]
         ELSE [w |-> p.w, r |-> p.w.reg.metadata[id]])
    ELSE [w |-> w, r |-> w.reg.metadata[id]]

-----------------------------------------------------------------------------
(* Loading *)

\* A faulty variant: a plugin with the host's own minor is rejected.
isPluginApiVersionCompatibleStrict(w, v) ==
    getMajor(v) = getMajor(w.cfg.api_version) /\ getMinor(v) < getMinor(w.cfg.api_version)

isPluginApiVersionCompatible(w, v) ==
    getMajor(v) = getMajor(w.cfg.api_version) /\ getMinor(v) <= getMinor(w.cfg.api_version)

\* A faulty variant: only the first declared version counts.
SupportedSdkVersionsFirstOnly(w, id) ==
    IF w.reg.metadata[id] = "valid"
    THEN <<Head(DeclaredVersions(w.cfg.pkg[id], w.cfg.api_version))>>
    ELSE <<VersionZero>>

\* self._metadata[plugin_id].get("plugin", {}).get("supported_sdk_versions", [Version("0")])
SupportedSdkVersions(w, id) ==
    IF w.reg.metadata[id] = "valid" THEN DeclaredVersions(w.cfg.pkg[id], w.cfg.api_version)
    ELSE <<VersionZero>>

\* A faulty variant: the error of the registration callback is not caught here.
addPluginObjectRaising(w, id, type, o) ==
    Let(Emit(Emit([w EXCEPT !.reg.plugin_objects = @ \cup {id},
                            !.obs.dispatches[id] = Inc(@)],
                  <<"setPluginId", o>>), <<"dispatch", id>>), LAMBDA w1 :
    CASE TypeCallback(type) = "none" -> Raise(w1, "KeyError")
      [] TypeCallback(type) = "raises" -> Raise(Emit(w1, <<"callback", o>>), "Exception")
      [] OTHER -> Emit(w1, <<"callback", o>>))

\* _addPluginObject: a missing type and a raising callback are logged
addPluginObject(w, id, type, o) ==
    Let(Emit(Emit([w EXCEPT !.reg.plugin_objects = @ \cup {id},
                            !.obs.dispatches[id] = Inc(@)],
                  <<"setPluginId", o>>), <<"dispatch", id>>), LAMBDA w1 :
    CASE TypeCallback(type) = "none" -> Emit(w1, <<"logged", o>>)
      [] TypeCallback(type) = "raises" -> Emit(Emit(w1, <<"callback", o>>), <<"logged", o>>)
      [] OTHER -> Emit(w1, <<"callback", o>>))

\* setVersion, setMetaData and _addPluginObject for one object
StampAndAdd(w, id, type, o) ==
    IF ~IsPluginObject(o) THEN Raise(w, "AttributeError")
    ELSE addPluginObject(Emit(Emit(w, <<"setVersion", o>>), <<"setMetaData", o>>), id, type, o)

RECURSIVE StampEach(_, _, _, _)
\* the objects of one type, in order; an exception ends the loop
StampEach(w, id, type, objs) ==
    IF objs = <<>> \/ w.exc # "none" THEN w
    ELSE StampEach(StampAndAdd(w, id, type, Head(objs)), id, type, Tail(objs))

RECURSIVE RegisterEach(_, _, _)
\* for plugin_type, plugin_object in to_register.items()
RegisterEach(w, id, to_register) ==
    IF to_register = <<>> \/ w.exc # "none" THEN w
    ELSE RegisterEach(StampEach(w, id, Head(to_register).type, Head(to_register).objs),
                      id, Tail(to_register))

\* loadPlugin from plugin.register() on: every exception is caught
RegisterPlugin(w, id) ==
    Let(Emit([w EXCEPT !.obs.registerCalls[id] = Inc(@)], <<"register", id>>), LAMBDA w1 :
    IF Register(w.cfg.pkg[id]) # "one" THEN w1
    ELSE Let(RegisterEach(w1, id, ToRegister(w.cfg.pkg[id])), LAMBDA w2 :
         IF w2.exc # "none" THEN Raise(w2, "none")
         ELSE enablePlugin([w2 EXCEPT !.reg.plugins = @ \cup {id}], id)))

\* loadPlugin after the already-loaded test
LoadFresh(w, id) ==
    Let(findPlugin(w, id), LAMBDA f :
    IF ~f.r THEN Raise(f.w, "PluginNotFoundError")
    ELSE Let(IF f.w.reg.metadata[id] = "absent" THEN populateMetaData(f.w, id).w ELSE f.w,
             LAMBDA p :
         IF p.exc = "InvalidMetaDataError" THEN Raise(p, "none")
         ELSE IF p.exc # "none" THEN p
         ELSE IF In(id, p.reg.disabled_plugins) THEN p
         ELSE IF ~\E v \in Range(SupportedSdkVersions(p, id)) :
                    isPluginApiVersionCompatible(p, v)
         THEN [p EXCEPT !.reg.outdated_plugins = Append(@, id)]
         ELSE RegisterPlugin(p, id)))

\* A faulty variant: loadPlugin without the already-loaded test.
loadPluginAgain(w, id) == LoadFresh(w, id)

loadPlugin(w, id) ==
    IF id \in w.reg.plugins THEN w ELSE LoadFresh(w, id)

RECURSIVE InstalledIn(_, _)
\* _findInstalledPlugins: the plugin folders of every location, in order
InstalledIn(w, folders) ==
    IF folders = <<>> THEN <<>>
    ELSE FilterSeq(IdOrder, PluginFolders(w, Head(folders))) \o InstalledIn(w, Tail(folders))

findInstalledPlugins(w) == InstalledIn(w, w.reg.plugin_locations)

RECURSIVE LoadEach(_, _)
\* the loop of loadPlugins
LoadEach(w, s) ==
    IF s = <<>> \/ w.exc # "none" THEN w
    ELSE Let(Head(s), LAMBDA id :
         Let(getMetaData(Emit(w, <<"process", id>>), id), LAMBDA g :
         IF g.w.exc # "none" THEN g.w
         ELSE Let(loadPlugin([g.w EXCEPT !.reg.metadata[id] = g.r], id), LAMBDA l :
              LoadEach(IF l.exc = "PluginNotFoundError" THEN Raise(l, "none")
                       ELSE IF l.exc # "none" THEN l
                       ELSE [l EXCEPT !.reg.all_plugins = Append(@, id),
                                      !.reg.plugins_installed = Append(@, id)],
                       Tail(s)))))

\* loadPlugins(metadata = None)
loadPlugins(w) == LoadEach(w, findInstalledPlugins(w))

getPluginObject(w, id) ==
    Let(IF id \notin w.reg.plugins THEN loadPlugin(w, id) ELSE w, LAMBDA l :
    IF l.exc # "none" THEN l
    ELSE IF id \notin l.reg.plugin_objects THEN Raise(l, "PluginNotFoundError")
    ELSE l)

\* getPluginPath: r is "path" for the plugin's directory and "None" for None
getPluginPath(w, id) ==
    Let(IF id \in w.reg.plugins THEN [w |-> w, r |-> TRUE] ELSE findPlugin(w, id), LAMBDA f :
    IF ~f.r THEN [w |-> f.w, r |-> "None"]
    ELSE IF id \notin f.w.reg.plugins
    THEN [w |-> Raise(f.w, "KeyError"), r |-> "None"]     \* self._plugins[plugin_id]
    ELSE \* os.path.isdir of the folder the module was loaded from
         Let(LocateFirst(f.w, id, f.w.reg.plugin_locations).r, LAMBDA root :
         IF \/ root = InstallRoot /\ id \in f.w.cfg.bundled
            \/ root = UserRoot /\ f.w.fs.userdir /\ f.w.fs.user[id] # "none"
         THEN [w |-> f.w, r |-> "path"]
         ELSE [w |-> f.w, r |-> "None"]))

-----------------------------------------------------------------------------
(* Listings *)

isActivePlugin(w, id) ==
    /\ ~In(id, w.reg.disabled_plugins)
    /\ ~In(id, w.reg.outdated_plugins)
    /\ In(id, w.reg.all_plugins)

\* getActivePlugins: the ids of _all_plugins that are active, in order
getActivePlugins(w) ==
    SelectSeq(w.reg.all_plugins, LAMBDA id : isActivePlugin(w, id))

RECURSIVE RemoveEach(_, _)
\* for x in t: if x in s: s.remove(x)
RemoveEach(s, t) ==
    IF t = <<>> THEN s ELSE RemoveEach(RemoveFirst(s, Head(t)), Tail(t))

\* how often x occurs in list s
Count(s, x) == Cardinality({i \in 1..Len(s) : s[i] = x})

RECURSIVE SortedFrom(_, _)
\* sorted(s), the ids taken in their order from position i on
SortedFrom(s, i) ==
    IF i > Len(IdOrder) THEN <<>>
    ELSE [k \in 1..Count(s, IdOrder[i]) |-> IdOrder[i]] \o SortedFrom(s, i + 1)

\* getInstalledPlugins: the installed list without the ids to remove, with the ids to
\* install, sorted
getInstalledPlugins(w) ==
    SortedFrom(AppendAllNew(RemoveEach(w.reg.plugins_installed, w.reg.plugins_to_remove),
                            FilterSeq(IdOrder, DOMAIN w.reg.plugins_to_install)),
               1)

RECURSIVE AllMetaDataFrom(_, _, _, _)
\* the loop of getAllMetaData with an empty filter: r lists <<id, metadata>> per entry
AllMetaDataFrom(w, s, active_only, r) ==
    IF s = <<>> \/ w.exc # "none" THEN [w |-> w, r |-> r]
    ELSE IF active_only /\ (In(Head(s), w.reg.disabled_plugins) \/ In(Head(s), w.reg.outdated_plugins))
    THEN AllMetaDataFrom(w, Tail(s), active_only, r)
    ELSE Let(getMetaData(w, Head(s)), LAMBDA g :
         AllMetaDataFrom(g.w, Tail(s), active_only,
                         IF g.w.exc = "none" THEN Append(r, <<Head(s), g.r>>) ELSE r))

getAllMetaData(w, active_only) ==
    AllMetaDataFrom(w, w.reg.all_plugins, active_only, <<>>)

-----------------------------------------------------------------------------
(* The state machine *)

OkEnv == [save |-> "ok", read |-> "ok", rmtree |-> "ok", extract |-> "ok", rmCached |-> "ok"]

\* How each I/O operation may end.
Outcomes ==
    [save |-> {"ok", "lock_fail", "write_fail"},
     read |-> {"ok", "fail"},
     rmtree |-> {"ok", "fail"},
     extract |-> {"ok", "open_fail", "extract_fail"},
     rmCached |-> {"ok", "fail"}]

\* The outcomes of every I/O operation a call may meet in this run.
Envs == {e \in [save : Outcomes.save, read : Outcomes.read, rmtree : Outcomes.rmtree,
                extract : Outcomes.extract, rmCached : Outcomes.rmCached] :
            \A k \in DOMAIN OkEnv : e[k] # "ok" => k \in cfg.faulty}

\* The outcomes a call made after the start-up pass may meet: archives are extracted by
\* _installPlugin and folders deleted by _removePlugin, which only the start-up pass calls.
CallEnvs == {e \in Envs : e.extract = "ok" /\ e.rmtree = "ok"}

World(env) ==
    [cfg |-> cfg, reg |-> reg, fs |-> fs, prefs |-> prefs, obs |-> obs, env |-> env,
     exc |-> "none", ret |-> "", trace |-> <<>>, faulted |-> FALSE]

\* the call has ended: the world it leaves, and how it ended
Commit(w) ==
    /\ w.faulted => obs.faults < MaxFaults
    /\ reg' = w.reg
    /\ fs' = w.fs
    /\ prefs' = w.prefs
    /\ obs' = [w.obs EXCEPT !.result = IF w.exc # "none" THEN w.exc ELSE w.ret,
                            !.faults = IF w.faulted THEN @ + 1 ELSE @]
    /\ cfg' = cfg
    /\ UNCHANGED <<items, signals>>

\* PluginRegistry.__init__, and the plugin locations the host adds
NewRegistry ==
    [all_plugins |-> <<>>,
     metadata |-> [id \in Ids |-> "absent"],
     plugins_installed |-> <<>>,
     disabled_plugins |-> <<>>,
     outdated_plugins |-> <<>>,
     plugins_to_install |-> EmptyDict,
     plugins_to_remove |-> <<>>,
     plugins |-> {},
     found_plugins |-> {},
     plugin_objects |-> {},
     plugin_locations |-> <<InstallRoot, UserRoot>>,
     plugin_folder_cache |-> EmptyDict,
     bundled_plugin_cache |-> EmptyDict,
     check_if_trusted |-> FALSE,
     checked_plugin_ids |-> <<>>,
     distrusted_plugin_ids |-> <<>>]

NewObs ==
    [op |-> <<"__init__", "">>, result |-> "",
     wasLoaded |-> FALSE,
     wasPendingRemoval |-> FALSE,
     lostWrite |-> FALSE,
     faults |-> 0,
     registerCalls |-> [id \in Ids |-> 0],
     dispatches |-> [id \in Ids |-> 0],
     startup |-> <<>>,
     passes |-> 0]

\* The host API versions.
ApiVersions == {<<7, 2>>}

\* Host API versions with and without major 0.
HostVersions == {<<7, 2>>, <<0, 1>>}

NoFile == [state |-> "absent", data |-> NoData]

\* A run: the packages and the host (cfg), the disk, and the legacy preferences.
\* cfg.targets are the ids the per-plugin calls are made on, cfg.faulty the I/O operations
\* that may fail.
InitWith(cfgs, files, users, caches, legacy) ==
    /\ cfg \in cfgs
    /\ reg = NewRegistry
    /\ fs \in [file : files, user : users, cache : caches, userdir : {TRUE}]
    /\ prefs \in legacy
    /\ obs = NewObs
    /\ items = <<>>
    /\ signals = <<>>
    /\ phase = "constructed"

\* Loading: plugin "a" is any kind of package, under the user root or also bundled;
\* the disk is that of a first run.
Init ==
    InitWith([pkg : {[id \in Ids |-> IF id = "a" THEN k ELSE "ok"] : k \in Kinds},
              bundled : {{}, {"a"}},
              api_version : ApiVersions,
              targets : {{"a"}},
              faulty : {{"rmCached"}}],
             {NoFile},
             {[id \in Ids |-> "ok"]},
             {{}},
             {[disabled_plugins |-> <<>>, plugins_to_remove |-> <<>>]})

\* The host has made the startup pass: it calls initializeBeforePluginsAreLoaded before it
\* discovers and loads plugins and before it serves requests.
Started == phase = "running"

SetCheckIfTrusted(b) ==
    /\ phase = "constructed"
    /\ reg' = [reg EXCEPT !.check_if_trusted = b]
    /\ UNCHANGED <<cfg, fs, prefs, obs, phase, items, signals>>

StartupPass ==
    /\ phase = "constructed"
    /\ \E env \in Envs :
          \E w \in {initializeBeforePluginsAreLoaded(Begin(World(env), "startup", ""))} :
              /\ Commit([w EXCEPT !.obs.startup = w.trace])
              /\ phase' = IF w.exc = "none" THEN "running" ELSE "crashed"

\* the append-only lists stay within the bound
WithinBounds(w) ==
    /\ Len(w.reg.outdated_plugins) <= MaxAppend
    /\ Len(w.reg.distrusted_plugin_ids) <= MaxAppend

LoadPlugins ==
    /\ Started
    /\ obs.passes < MaxPasses
    /\ \E env \in Envs :
          \E w \in {loadPlugins(Begin(World(env), "loadPlugins", ""))} :
              /\ WithinBounds(w)
              /\ Commit([w EXCEPT !.obs.passes = @ + 1])
              /\ phase' = phase

LoadPlugin(id) ==
    /\ Started
    /\ \E env \in CallEnvs :
          \E w \in {loadPlugin(Begin(World(env), "loadPlugin", id), id)} :
              /\ WithinBounds(w)
              /\ Commit(w)
              /\ phase' = phase

GetPluginObject(id) ==
    /\ Started
    /\ \E env \in CallEnvs :
          \E w \in {getPluginObject(Begin(World(env), "getPluginObject", id), id)} :
              /\ WithinBounds(w)
              /\ Commit(w)
              /\ phase' = phase

EnablePlugin(id) ==
    /\ Started
    /\ \E env \in CallEnvs :
          \E w \in {enablePlugin(Begin(World(env), "enablePlugin", id), id)} :
              /\ Commit(w)
              /\ phase' = phase

DisablePlugin(id) ==
    /\ Started
    /\ \E env \in CallEnvs :
          \E w \in {disablePlugin(Begin(World(env), "disablePlugin", id), id)} :
              /\ Commit(w)
              /\ phase' = phase

InstallPlugin(archive) ==
    /\ Started
    /\ \E env \in CallEnvs :
          \E w \in {installPlugin(Begin(World(env), "installPlugin",
                                         getPluginIdFromFile(archive).id), archive)} :
              /\ Commit(w)
              /\ phase' = phase

UninstallPlugin(id) ==
    /\ Started
    /\ \E env \in CallEnvs :
          \E w \in {uninstallPlugin(Begin(World(env), "uninstallPlugin", id), id)} :
              /\ Commit(w)
              /\ phase' = phase

Next ==
    \/ \E b \in BOOLEAN : SetCheckIfTrusted(b)
    \/ StartupPass
    \/ LoadPlugins
    \/ \E id \in cfg.targets : LoadPlugin(id)
    \/ \E id \in cfg.targets : GetPluginObject(id)
    \/ \E id \in cfg.targets : EnablePlugin(id)
    \/ \E id \in cfg.targets : DisablePlugin(id)
    \/ \E archive \in Archives(cfg.targets) : InstallPlugin(archive)
    \/ \E id \in cfg.targets : UninstallPlugin(id)

Spec == Init /\ [][Next]_vars

-----------------------------------------------------------------------------
(* The lifecycle of installed plugins: scheduling, the startup pass, persistence *)

\* A plugins.json left by an earlier run: "b" was disabled and scheduled for removal,
\* "a" was scheduled for installation.
PendingFile ==
    [state |-> "ok",
     data |-> [disabled |-> <<"b">>,
               to_install |-> JsonObject(DictSet(EmptyDict, "a", InstallInfo("a"))),
               to_remove |-> <<"b">>]]

\* Both packages are sound and live under the user root only; "a" may be absent from the
\* disk; plugins.json is absent (a first run) or left by an earlier run, with the archive
\* of "a" in the cache; the legacy preferences are empty or disable "a".
InitLife ==
    InitWith([pkg : {[id \in Ids |-> "ok"]},
              bundled : {{}},
              api_version : ApiVersions,
              targets : {{"a"}, {"b"}},
              faulty : {{"save", "extract"}}],
             {NoFile, PendingFile},
             {[id \in Ids |-> IF id = "a" THEN x ELSE "ok"] : x \in {"ok", "none"}},
             {{"a"}},
             {[disabled_plugins |-> <<>>, plugins_to_remove |-> <<>>],
              [disabled_plugins |-> <<"a">>, plugins_to_remove |-> <<>>]})

NextLife ==
    \/ StartupPass
    \/ LoadPlugins
    \/ \E id \in cfg.targets : LoadPlugin(id)
    \/ \E id \in cfg.targets : EnablePlugin(id)
    \/ \E id \in cfg.targets : DisablePlugin(id)
    \/ \E archive \in Archives(cfg.targets) : InstallPlugin(archive)
    \/ \E id \in cfg.targets : UninstallPlugin(id)

SpecLife == InitLife /\ [][NextLife]_vars

-----------------------------------------------------------------------------
(* Version checks: what the descriptor of "a" declares against the host's version *)

InitApi ==
    InitWith([pkg : {[id \in Ids |-> IF id = "a" THEN k ELSE "ok"] : k \in VersionKinds},
              bundled : {{}},
              api_version : HostVersions,
              targets : {{"a"}},
              faulty : {{}}],
             {NoFile},
             {[id \in Ids |-> "ok"]},
             {{}},
             {[disabled_plugins |-> <<>>, plugins_to_remove |-> <<>>]})

NextApi ==
    \/ StartupPass
    \/ LoadPlugins
    \/ \E id \in cfg.targets : LoadPlugin(id)
    \/ \E id \in cfg.targets : EnablePlugin(id)
    \/ \E id \in cfg.targets : DisablePlugin(id)

SpecApi == InitApi /\ [][NextApi]_vars

-----------------------------------------------------------------------------
(* Start-up: what an earlier run left in plugins.json, on the disk, in the cache and in
   the legacy preferences, and the I/O of the start-up pass failing or not *)

\* The lists of ids a file or a preference may hold.
PendingLists == {<<>>, <<"a">>, <<"b">>, <<"a", "b">>}

\* plugins.json: absent, unreadable as JSON, or holding what an earlier run saved.
StartupFiles ==
    {NoFile, [state |-> "corrupt", data |-> NoData]}
    \cup {[state |-> "ok",
           data |-> [disabled |-> d,
                     to_install |-> JsonObject([id \in i |-> InstallInfo(id)]),
                     to_remove |-> r]] :
             d \in {<<>>, <<"a">>}, i \in {{}, {"a"}, {"a", "b"}}, r \in PendingLists}

\* The legacy preferences: comma-joined id lists; the to-remove one may hold a blank entry.
LegacyPrefs ==
    [disabled_plugins : {<<>>, <<"a">>, <<"b", "a">>},
     plugins_to_remove : {<<>>, <<"b">>, <<"b", "">>}]

InitStartup ==
    InitWith([pkg : {[id \in Ids |-> "ok"]},
              bundled : {{}},
              api_version : ApiVersions,
              targets : {{"a"}},
              faulty : {{"save", "read", "rmtree", "extract"}}],
             StartupFiles,
             [Ids -> {"ok", "none"}],
             SUBSET Ids,
             LegacyPrefs)

InitializeAfter ==
    /\ Started
    /\ \E w \in {initializeAfterPluginsAreLoaded(
                     Begin(World(OkEnv), "initializeAfterPluginsAreLoaded", ""))} :
          /\ Commit(w)
          /\ phase' = phase

NextStartup ==
    \/ StartupPass
    \/ LoadPlugins
    \/ InitializeAfter

SpecStartup == InitStartup /\ [][NextStartup]_vars

-----------------------------------------------------------------------------
(* Trust: the plugin locations in either order, "a" signed or not, bundled or not, under
   the user root or not; isBundledPlugin is a public query *)

\* The orders in which the host may have added the two plugin locations.
LocationOrders == {<<InstallRoot, UserRoot>>, <<UserRoot, InstallRoot>>}

InitTrust ==
    /\ cfg \in [pkg : {[id \in Ids |-> IF id = "a" THEN k ELSE "ok"] : k \in {"ok", "unsigned"}},
                bundled : {{}, {"a"}},
                api_version : ApiVersions,
                targets : {{"a"}},
                faulty : {{}}]
    /\ reg \in {[NewRegistry EXCEPT !.plugin_locations = o] : o \in LocationOrders}
    /\ fs \in [file : {NoFile},
                user : {[id \in Ids |-> IF id = "a" THEN x ELSE "ok"] : x \in {"ok", "none"}},
                cache : {{}},
                userdir : {TRUE}]
    /\ prefs = [disabled_plugins |-> <<>>, plugins_to_remove |-> <<>>]
    /\ obs = NewObs
    /\ items = <<>>
    /\ signals = <<>>
    /\ phase = "constructed"

IsBundledPlugin(id) ==
    /\ phase # "crashed"
    /\ \E b \in {isBundledPlugin(Begin(World(OkEnv), "isBundledPlugin", id), id)} :
          /\ Commit(Return(b.w, IF b.r THEN "True" ELSE "False"))
          /\ phase' = phase

NextTrust ==
    \/ \E b \in BOOLEAN : SetCheckIfTrusted(b)
    \/ StartupPass
    \/ \E id \in cfg.targets : IsBundledPlugin(id)
    \/ LoadPlugins
    \/ \E id \in cfg.targets : LoadPlugin(id)
    \/ \E id \in cfg.targets : GetPluginObject(id)

SpecTrust == InitTrust /\ [][NextTrust]_vars

-----------------------------------------------------------------------------
(* The bundled decision: isBundledPlugin asked before and after a start-up pass that has
   an install or a removal of the plugin to materialize *)

BundledFiles ==
    {[state |-> "ok",
      data |-> [disabled |-> <<>>,
                to_install |-> JsonObject([id \in i |-> InstallInfo(id)]),
                to_remove |-> r]] :
        i \in {{}, {"a"}}, r \in {<<>>, <<"a">>}}

InitBundled ==
    InitWith([pkg : {[id \in Ids |-> "ok"]},
              bundled : {{}, {"a"}},
              api_version : ApiVersions,
              targets : {{"a"}, {"b"}},
              faulty : {{}}],
             BundledFiles,
             {[id \in Ids |-> "ok"]},
             {{"a"}},
             {[disabled_plugins |-> <<>>, plugins_to_remove |-> <<>>]})

NextBundled ==
    \/ \E b \in BOOLEAN : SetCheckIfTrusted(b)
    \/ \E id \in cfg.targets : IsBundledPlugin(id)
    \/ StartupPass
    \/ LoadPlugins
    \/ \E id \in cfg.targets : LoadPlugin(id)

SpecBundled == InitBundled /\ [][NextBundled]_vars

-----------------------------------------------------------------------------
(* The lists: a duplicate-free plugins.json, legacy preferences that name an id more than
   once, and the calls that add to and remove from the disabled and to-remove lists *)

ListFiles ==
    {NoFile}
    \cup {[state |-> "ok",
           data |-> [disabled |-> d, to_install |-> {}, to_remove |-> r]] :
             d \in {<<>>, <<"a">>}, r \in {<<>>, <<"b">>}}

ListPrefs ==
    [disabled_plugins : {<<>>, <<"a", "a">>, <<"a", "b", "a">>},
     plugins_to_remove : {<<>>, <<"b", "b">>}]

InitLists ==
    InitWith([pkg : {[id \in Ids |-> "ok"]},
              bundled : {{}},
              api_version : ApiVersions,
              targets : {{"a"}, {"b"}},
              faulty : {{}}],
             ListFiles,
             {[id \in Ids |-> "ok"]},
             {{}},
             ListPrefs)

NextLists ==
    \/ StartupPass
    \/ LoadPlugins
    \/ \E id \in cfg.targets : EnablePlugin(id)
    \/ \E id \in cfg.targets : DisablePlugin(id)
    \/ \E archive \in Archives(cfg.targets) : InstallPlugin(archive)
    \/ \E id \in cfg.targets : UninstallPlugin(id)

SpecLists == InitLists /\ [][NextLists]_vars

-----------------------------------------------------------------------------
(* Paths: getPluginPath asked for plugins that are loaded, disabled, outdated or not there *)

GetPluginPath(id) ==
    /\ Started
    /\ \E env \in CallEnvs :
          \E g \in {getPluginPath(Begin(World(env), "getPluginPath", id), id)} :
              /\ WithinBounds(g.w)
              /\ Commit(Return(g.w, g.r))
              /\ phase' = phase

NextPath ==
    \/ \E b \in BOOLEAN : SetCheckIfTrusted(b)
    \/ StartupPass
    \/ LoadPlugins
    \/ \E id \in cfg.targets : LoadPlugin(id)
    \/ \E id \in cfg.targets : DisablePlugin(id)
    \/ \E id \in cfg.targets : GetPluginPath(id)

SpecPath == Init /\ [][NextPath]_vars

-----------------------------------------------------------------------------
(* Registration: what the register entry point of "a" returns, one object or lists of
   objects, for types with and without a callback *)

InitRegister ==
    InitWith([pkg : {[id \in Ids |-> IF id = "a" THEN k ELSE "ok"] :
                        k \in RegisterKinds \cup {"ok", "reg_empty", "reg_raises"}},
              bundled : {{}},
              api_version : ApiVersions,
              targets : {Ids},
              faulty : {{}}],
             {NoFile},
             {[id \in Ids |-> "ok"]},
             {{}},
             {[disabled_plugins |-> <<>>, plugins_to_remove |-> <<>>]})

NextRegister ==
    \/ StartupPass
    \/ LoadPlugins
    \/ \E id \in cfg.targets : LoadPlugin(id)
    \/ \E id \in cfg.targets : GetPluginObject(id)
    \/ \E id \in cfg.targets : EnablePlugin(id)
    \/ \E id \in cfg.targets : DisablePlugin(id)

SpecRegister == InitRegister /\ [][NextRegister]_vars

-----------------------------------------------------------------------------
(* Metadata: getMetaData called by the host, before and after the plugins are loaded *)

GetMetaData(id) ==
    /\ Started
    /\ \E env \in CallEnvs :
          \E g \in {getMetaData(Begin(World(env), "getMetaData", id), id)} :
              /\ WithinBounds(g.w)
              /\ Commit(Return(g.w, g.r))
              /\ phase' = phase

NextMeta ==
    \/ \E b \in BOOLEAN : SetCheckIfTrusted(b)
    \/ StartupPass
    \/ LoadPlugins
    \/ \E id \in Ids : LoadPlugin(id)
    \/ \E id \in Ids : GetMetaData(id)

SpecMeta == Init /\ [][NextMeta]_vars

-----------------------------------------------------------------------------
(* Locating: the user plugin directory may not exist yet, and plugin folders are added
   to it and removed from it while the process runs *)

InitLocate ==
    /\ cfg \in [pkg : {[id \in Ids |-> "ok"]},
                bundled : {{}, {"b"}},
                api_version : ApiVersions,
                targets : {{"a"}, {"b"}},
                faulty : {{}}]
    /\ reg = NewRegistry
    /\ fs \in {f \in [file : {NoFile}, user : [Ids -> {"ok", "none"}], cache : {{}},
                       userdir : BOOLEAN] :
                  ~f.userdir => \A id \in Ids : f.user[id] = "none"}
    /\ prefs = [disabled_plugins |-> <<>>, plugins_to_remove |-> <<>>]
    /\ obs = NewObs
    /\ items = <<>>
    /\ signals = <<>>
    /\ phase = "constructed"

\* Someone puts a plugin folder into the user plugin directory (creating the directory
\* when it is not there); os.walk and os.listdir see it from then on.
FolderAdded(id) ==
    /\ Started
    /\ fs.user[id] = "none"
    /\ \E w \in {Begin(World(OkEnv), "folderAdded", id)} :
          /\ Commit([w EXCEPT !.fs.user[id] = "ok", !.fs.userdir = TRUE])
          /\ phase' = phase

\* Someone deletes a plugin folder from the user plugin directory.
FolderRemoved(id) ==
    /\ Started
    /\ fs.user[id] = "ok"
    /\ \E w \in {Begin(World(OkEnv), "folderRemoved", id)} :
          /\ Commit([w EXCEPT !.fs.user[id] = "none"])
          /\ phase' = phase

NextLocate ==
    \/ StartupPass
    \/ LoadPlugins
    \/ \E id \in cfg.targets : LoadPlugin(id)
    \/ \E id \in cfg.targets : GetPluginObject(id)
    \/ \E id \in cfg.targets : FolderAdded(id)
    \/ \E id \in cfg.targets : FolderRemoved(id)

SpecLocate == InitLocate /\ [][NextLocate]_vars

-----------------------------------------------------------------------------
(* UM/Qt/ListModel.py *)

\* The items a caller puts into the model (dicts in the code).
ItemValues == {"x", "y"}

\* The lists of at most n items.
ItemLists(n) == UNION {[1..k -> ItemValues] : k \in 0..n}

\* ListModel.count
count(list) == Len(list)

\* QAbstractListModel.index(row, 0) taken as a row: -1 is the invalid index Qt gives for a
\* row the model does not have.
Index(list, row) == IF row >= 0 /\ row < count(list) THEN row ELSE -1

\* A signal as a connected slot sees it: its name, its row arguments (-1 where it has
\* none) and the count of the model at that moment.
Signal(name, first, last, list) ==
    [sig |-> name, first |-> first, last |-> last, count |-> count(list)]

\* A faulty variant: rows are announced as inserted also when the lengths are equal.
need_to_add_or_equal(old_row_count, new_row_count) == old_row_count <= new_row_count

need_to_add(old_row_count, new_row_count) == old_row_count < new_row_count

need_to_remove(old_row_count, new_row_count) == old_row_count > new_row_count

\* setItems: the signals of the call, in order
setItems(old, new) ==
    LET old_row_count == Len(old)
        new_row_count == Len(new)
        \* min(old_row_count, new_row_count)
        changed_row_count == IF old_row_count < new_row_count THEN old_row_count
                             ELSE new_row_count
        begin == IF need_to_add(old_row_count, new_row_count)
                 THEN <<Signal("beginInsertRows", old_row_count, new_row_count - 1, old)>>
                 ELSE IF need_to_remove(old_row_count, new_row_count)
                 THEN <<Signal("beginRemoveRows", new_row_count, old_row_count - 1, old)>>
                 ELSE <<>>
        \* self._items = items
        end == IF need_to_add(old_row_count, new_row_count)
               THEN <<Signal("endInsertRows", -1, -1, new)>>
               ELSE IF need_to_remove(old_row_count, new_row_count)
               THEN <<Signal("endRemoveRows", -1, -1, new)>>
               ELSE <<>>
        changed == IF changed_row_count >= 0
                   THEN <<Signal("dataChanged", Index(new, 0),
                                 Index(new, changed_row_count - 1), new)>>
                   ELSE <<>>
    IN  begin \o end \o changed \o <<Signal("itemsChanged", -1, -1, new)>>

\* list.insert(index, item), index being a row of the list or its length
InsertAt(list, index, item) ==
    [i \in 1..Len(list) + 1 |-> IF i <= index THEN list[i]
                                ELSE IF i = index + 1 THEN item ELSE list[i - 1]]

\* del list[index]
DeleteAt(list, index) ==
    [i \in 1..Len(list) - 1 |-> IF i <= index THEN list[i] ELSE list[i + 1]]

\* A ListModel after construction; the registry variables play no part.
InitModel ==
    /\ cfg = [pkg |-> [id \in Ids |-> "ok"], bundled |-> {}, api_version |-> <<7, 2>>,
              targets |-> {}, faulty |-> {}]
    /\ reg = NewRegistry
    /\ fs = [file |-> NoFile, user |-> [id \in Ids |-> "none"], cache |-> {}, userdir |-> TRUE]
    /\ prefs = [disabled_plugins |-> <<>>, plugins_to_remove |-> <<>>]
    /\ obs = NewObs
    /\ items = <<>>
    /\ signals = <<>>
    /\ phase = "model"

\* A call of the model named op has ended with these items and these signals.
ModelCall(op, list, emitted) ==
    /\ phase = "model"
    /\ items' = list
    /\ signals' = emitted
    /\ obs' = [obs EXCEPT !.op = <<op, "">>]
    /\ UNCHANGED <<cfg, reg, fs, prefs, phase>>

SetItems(new) == ModelCall("setItems", new, setItems(items, new))

\* insertItem: the signals of the call, in order
insertItem(old, index, item) ==
    <<Signal("beginInsertRows", index, index, old),
      Signal("endInsertRows", -1, -1, InsertAt(old, index, item)),
      Signal("itemsChanged", -1, -1, InsertAt(old, index, item))>>

InsertItem(index, item) ==
    /\ Len(items) < MaxLen
    /\ ModelCall("insertItem", InsertAt(items, index, item), insertItem(items, index, item))

\* appendItem: insertItem(len(self._items), item)
AppendItem(item) ==
    /\ Len(items) < MaxLen
    /\ ModelCall("appendItem", InsertAt(items, Len(items), item),
                 insertItem(items, Len(items), item))

RemoveItem(index) ==
    \E new \in {DeleteAt(items, index)} :
        ModelCall("removeItem", new,
                  <<Signal("beginRemoveRows", index, index, items),
                    Signal("endRemoveRows", -1, -1, new),
                    Signal("itemsChanged", -1, -1, new)>>)

Clear ==
    ModelCall("clear", <<>>,
              <<Signal("beginResetModel", -1, -1, items),
                Signal("endResetModel", -1, -1, <<>>),
                Signal("itemsChanged", -1, -1, <<>>)>>)

SetProperty(index, value) ==
    \E new \in {[items EXCEPT ![index + 1] = value]} :
        ModelCall("setProperty", new,
                  <<Signal("dataChanged", Index(new, index), Index(new, index), new)>>)

\* sort: list.sort(key = fun), the key ordering "x" before "y"
Sort ==
    \E new \in {[i \in 1..Len(items) |->
                    IF i <= Cardinality({j \in 1..Len(items) : items[j] = "x"})
                    THEN "x" ELSE "y"]} :
        ModelCall("sort", new,
                  <<Signal("beginResetModel", -1, -1, items),
                    Signal("endResetModel", -1, -1, new)>>)

NextModel ==
    \/ \E new \in ItemLists(MaxLen) : SetItems(new)
    \/ \E index \in 0..Len(items), item \in ItemValues : InsertItem(index, item)
    \/ \E item \in ItemValues : AppendItem(item)
    \/ \E index \in 0..Len(items) - 1 : RemoveItem(index)
    \/ Clear
    \/ \E index \in 0..Len(items) - 1, value \in ItemValues : SetProperty(index, value)
    \/ Sort

SpecModel == InitModel /\ [][NextModel]_vars

-----------------------------------------------------------------------------
(* Saving the three lists and reading them back in a new process *)

\* Python lists of plugin ids without repetition.
IdLists == {s \in UNION {[1..n -> Ids] : n \in 0..Len(IdOrder)} : NoDuplicates(s)}

\* A running registry whose disabled, to-install and to-remove values are any that the
\* public operations can produce (no id is scheduled both ways).
InitRoundTrip ==
    /\ cfg \in [pkg : {[id \in Ids |-> "ok"]}, bundled : {{}}, api_version : ApiVersions,
               targets : {{}}, faulty : {{"save", "read"}}]
    /\ \E d \in IdLists, r \in IdLists, i \in SUBSET Ids :
          /\ i \cap Range(r) = {}
          /\ reg = [NewRegistry EXCEPT !.disabled_plugins = d,
                                       !.plugins_to_remove = r,
                                       !.plugins_to_install = [x \in i |-> InstallInfo(x)]]
    /\ fs = [file |-> NoFile, user |-> [id \in Ids |-> "ok"], cache |-> {}, userdir |-> TRUE]
    /\ prefs = [disabled_plugins |-> <<>>, plugins_to_remove |-> <<>>]
    /\ obs = NewObs
    /\ items = <<>>
    /\ signals = <<>>
    /\ phase = "running"

\* _savePluginData
Save ==
    /\ Started
    /\ \E env \in CallEnvs :
          \E w \in {SavePluginData(Begin(World(env), "save", ""))} :
              /\ Commit(w)
              /\ phase' = "saved"

\* A new process constructs its registry and reads plugins.json.
Reload ==
    /\ phase = "saved"
    /\ \E env \in Envs :
          \E w \in {ReadPluginData(Begin([World(env) EXCEPT !.reg = NewRegistry], "read", ""))} :
              /\ Commit(w)
              /\ phase' = "reloaded"

NextRoundTrip == Save \/ Reload

SpecRoundTrip == InitRoundTrip /\ [][NextRoundTrip]_vars

-----------------------------------------------------------------------------
(* Properties *)

\* The events of a kind in a trace.
Events(t, kind) == {i \in 1..Len(t) : t[i][1] = kind}

\* C1: with trust checking on, once the signed-folder check of an id has failed (the
\* package is not signed and the id is in the distrusted list), a later loadPlugin(id)
\* fails again and does not invoke the signed-folder check for that id a second time.
C1_DistrustedIsNotRechecked ==
    \A id \in Ids :
        (/\ phase = "running"
         /\ reg.check_if_trusted
         /\ ~Signed(cfg.pkg[id])
         /\ In(id, reg.distrusted_plugin_ids))
        => \A env \in Envs :
              /\ loadPlugin(World(env), id).exc = "PluginNotFoundError"
              /\ ~In(<<"signedFolderCheck", id>>, loadPlugin(World(env), id).trace)

\* C2: installPlugin(archive) that identified id, followed at once by uninstallPlugin(id),
\* both saved, leaves id neither in the persisted to_install nor in the persisted to_remove,
\* and the plugin folders are as they were.
C2_InstallThenUninstallLeavesNothing ==
    [][\A id \in Ids :
          (/\ obs.op = <<"installPlugin", id>>
           /\ obs.result = "ok"
           /\ ~obs.lostWrite
           /\ obs'.op = <<"uninstallPlugin", id>>
           /\ ~obs'.lostWrite)
          => /\ id \notin DOMAIN JsonDict(fs'.file.data.to_install)
             /\ ~In(id, fs'.file.data.to_remove)
             /\ fs'.user = fs.user]_vars

\* C3: in one process the register entry point of a plugin is invoked at most once, and its
\* objects are dispatched to the type callbacks at most once.
C3_RegisteredAtMostOnce ==
    \A id \in Ids : obs.registerCalls[id] <= 1 /\ obs.dispatches[id] <= 1

\* C4: loadPlugin(id) on an id that is in the loaded-plugins map returns normally, invokes
\* neither register nor a type callback, and changes nothing of the registry, the disk or
\* the preferences.
C4_LoadPluginIdempotent ==
    [][\A id \in Ids :
          (id \in reg.plugins /\ obs'.op = <<"loadPlugin", id>>)
          => /\ reg' = reg
             /\ fs' = fs
             /\ prefs' = prefs
             /\ obs'.registerCalls = obs.registerCalls
             /\ obs'.dispatches = obs.dispatches
             /\ obs'.result = ""]_vars

\* C4: loadPlugin was called on a plugin that was loaded already, and registered once.
C4_SecondLoadPlugin ==
    /\ obs.op = <<"loadPlugin", "a">>
    /\ obs.wasLoaded
    /\ "a" \in reg.plugins
    /\ obs.registerCalls["a"] = 1

\* C5: with trust checking on, an id in the distrusted list has no loaded module in this
\* process.
C5_DistrustedNeverLoaded ==
    \A id \in Ids :
        (reg.check_if_trusted /\ In(id, reg.distrusted_plugin_ids))
        => id \notin reg.found_plugins

\* C6: after the startup pass no id is in to_remove and in to_install at once, and an
\* installPlugin that identified its id leaves that id out of to_remove.
C6_NoIdPendingBoth ==
    phase = "running"
    => /\ Range(reg.plugins_to_remove) \cap DOMAIN reg.plugins_to_install = {}
       /\ \A id \in Ids :
             (obs.op = <<"installPlugin", id>> /\ obs.result = "ok")
             => (id \in DOMAIN reg.plugins_to_install /\ ~In(id, reg.plugins_to_remove))

\* C6: installPlugin succeeded for an id whose removal was pending when it was called.
C6_InstallCancelledRemoval ==
    \E id \in Ids :
        /\ obs.op = <<"installPlugin", id>>
        /\ obs.result = "ok"
        /\ obs.wasPendingRemoval
        /\ id \in DOMAIN reg.plugins_to_install

\* C7: the startup pass reads, applies the removals, clears the to-remove list, saves,
\* applies the installs, clears the to-install list and saves, in this order and with
\* nothing else between (a pass that a removal aborts got no further than its removals);
\* no plugin is discovered, registered or loaded before the pass has returned.
C7_StartupOrder ==
    LET t == obs.startup
        n == Len(t)
        Kind(i) == t[i][1]
    IN  /\ phase = "running"
           => /\ n >= 5
              /\ Kind(1) = "read"
              /\ Kind(n) = "persist" /\ Kind(n - 1) = "clear_install"
              /\ \E c \in 2..(n - 3) :
                    /\ Kind(c) = "clear_remove" /\ Kind(c + 1) = "persist"
                    /\ \A i \in 2..(c - 1) : Kind(i) = "remove"
                    /\ \A i \in (c + 2)..(n - 2) : Kind(i) = "install"
        /\ phase = "crashed"
           => /\ n >= 1
              /\ Kind(1) = "read"
              /\ \A i \in 2..n : Kind(i) = "remove"
        /\ phase # "running"
           => /\ obs.passes = 0
              /\ reg.plugins = {} /\ reg.found_plugins = {} /\ reg.all_plugins = <<>>

\* C7: a startup pass that removed a plugin and installed one has returned.
C7_StartupRemovedAndInstalled ==
    /\ phase = "running"
    /\ Events(obs.startup, "remove") # {}
    /\ Events(obs.startup, "install") # {}

\* C8: when a public mutating operation has returned and its writes succeeded, plugins.json
\* holds the in-memory disabled, to_install and to_remove values.
C8_PersistedEqualsMemory ==
    (phase = "running" /\ ~obs.lostWrite)
    => /\ fs.file.state = "ok"
       /\ fs.file.data.disabled = reg.disabled_plugins
       /\ JsonDict(fs.file.data.to_install) = reg.plugins_to_install
       /\ fs.file.data.to_remove = reg.plugins_to_remove

\* C8: disablePlugin has returned, its write succeeded, and the id is disabled in memory
\* and in the file.
C8_DisableSaved ==
    \E id \in Ids :
        /\ phase = "running"
        /\ obs.op = <<"disablePlugin", id>>
        /\ ~obs.lostWrite
        /\ In(id, reg.disabled_plugins)
        /\ In(id, fs.file.data.disabled)

\* C9: reading a plugins.json that was saved yields the disabled, to_install and to_remove
\* values that were saved (the write and the read succeeding).
C9_RoundTrip ==
    [][(/\ phase = "saved" /\ phase' = "reloaded"
        /\ ~obs.lostWrite
        /\ obs'.faults = obs.faults)
       => /\ reg'.disabled_plugins = reg.disabled_plugins
          /\ reg'.plugins_to_install = reg.plugins_to_install
          /\ reg'.plugins_to_remove = reg.plugins_to_remove]_vars

\* C9: a new process has read back a file in which all three values are non-empty and
\* the disabled list differs from the to-remove list.
C9_ReloadedAllThree ==
    /\ phase = "reloaded"
    /\ ~obs.lostWrite
    /\ obs.faults = 0
    /\ reg.disabled_plugins # <<>>
    /\ reg.plugins_to_install # EmptyDict
    /\ reg.plugins_to_remove # <<>>
    /\ reg.disabled_plugins # reg.plugins_to_remove

\* C10: a loadPlugins pass returns normally whatever fails for one plugin, and processes
\* every id it discovered.
C10_PassSkipsFailingPlugin ==
    phase = "running"
    => /\ loadPlugins(World(OkEnv)).exc = "none"
       /\ \A id \in Range(findInstalledPlugins(World(OkEnv))) :
             In(<<"process", id>>, loadPlugins(World(OkEnv)).trace)

\* C11: a plugin whose descriptor has no version (metadata resolution fails with
\* InvalidMetaDataError) never has its register entry point invoked, whatever the host API
\* version.
C11_InvalidMetaDataNeverRegistered ==
    \A id \in Ids : cfg.pkg[id] = "noversion" => obs.registerCalls[id] = 0

\* C12: once a loadPlugins pass has run, a plugin whose descriptor has no version field
\* has no entry in getAllMetaData(active_only=True), whatever the host API version.
C12_NoVersionNotListed ==
    (phase = "running" /\ obs.passes >= 1)
    => \A id \in Ids :
          cfg.pkg[id] = "noversion"
          => \A e \in Range(getAllMetaData(World(OkEnv), TRUE).r) : e[1] # id

\* C13: a plugin whose only declared version has the host's major and a greater minor is
\* never loaded and is in no active listing: isActivePlugin is false, getActivePlugins and
\* getAllMetaData(active_only=True) omit it.
C13_NewerMinorNeverActive ==
    phase = "running"
    => \A id \in Ids :
          cfg.pkg[id] = "newer_minor"
          => /\ id \notin reg.plugins
             /\ ~isActivePlugin(World(OkEnv), id)
             /\ ~In(id, getActivePlugins(World(OkEnv)))
             /\ \A e \in Range(getAllMetaData(World(OkEnv), TRUE).r) : e[1] # id

\* The plugin versions the compatibility check is tried on: the majors of the hosts and
\* the next ones, every minor up to MaxMinor.
PluginVersions ==
    {<<ma, mi>> : ma \in {getMajor(h) + d : h \in HostVersions, d \in 0..1}, mi \in 0..MaxMinor}

\* C14: isPluginApiVersionCompatible(v) is true exactly when v's major equals the host's
\* major and v's minor is at most the host's minor, for every plugin and host version;
\* in particular 7.0 is compatible with host 7.2.
C14_CompatibleIffSameMajorAndMinorAtMost ==
    /\ \A v \in PluginVersions :
          isPluginApiVersionCompatible(World(OkEnv), v)
          <=> (v[1] = cfg.api_version[1] /\ v[2] <= cfg.api_version[2])
    /\ cfg.api_version = <<7, 2>> => isPluginApiVersionCompatible(World(OkEnv), <<7, 0>>)

\* C14: on host 7.2, a plugin declaring 7.0 went through the check and was registered.
C14_CompatiblePluginRegistered ==
    /\ cfg.api_version = <<7, 2>>
    /\ cfg.pkg["a"] = "ok"
    /\ DeclaredVersions(cfg.pkg["a"], cfg.api_version) = << <<7, 0>> >>
    /\ obs.op = <<"loadPlugin", "a">>
    /\ obs.registerCalls["a"] = 1
    /\ "a" \in reg.plugins

\* C15: loadPlugin of a found, not yet loaded, not disabled plugin with valid metadata
\* invokes register exactly when one of the versions its descriptor declares has the
\* host's major and at most the host's minor; otherwise it records the id as outdated,
\* does not invoke register and returns without raising.
C15_RegisteredIffSomeVersionCompatible ==
    phase = "running"
    => \A id \in cfg.targets :
          (/\ id \notin reg.plugins
           /\ ~In(id, reg.disabled_plugins)
           /\ findPlugin(World(OkEnv), id).r
           /\ getMetaData(World(OkEnv), id).r = "valid")
          => IF \E v \in Range(DeclaredVersions(cfg.pkg[id], cfg.api_version)) :
                   v[1] = cfg.api_version[1] /\ v[2] <= cfg.api_version[2]
             THEN In(<<"register", id>>, loadPlugin(World(OkEnv), id).trace)
             ELSE /\ ~In(<<"register", id>>, loadPlugin(World(OkEnv), id).trace)
                  /\ In(id, loadPlugin(World(OkEnv), id).reg.outdated_plugins)
                  /\ id \notin loadPlugin(World(OkEnv), id).reg.plugins
                  /\ loadPlugin(World(OkEnv), id).exc = "none"

\* C15: a plugin whose first declared version is incompatible and whose second one is
\* compatible was loaded by loadPlugin, and is not recorded as outdated.
C15_LoadedOnSecondVersion ==
    /\ cfg.pkg["a"] = "either"
    /\ obs.op = <<"loadPlugin", "a">>
    /\ ~obs.wasLoaded
    /\ obs.registerCalls["a"] = 1
    /\ "a" \in reg.plugins
    /\ ~In("a", reg.outdated_plugins)

\* C16: no id occurs twice in the all-plugins list, in the installed list, or in what
\* getActivePlugins, getInstalledPlugins and getAllMetaData return.
C16_DiscoveredIdsUnique ==
    /\ NoDuplicates(reg.all_plugins)
    /\ NoDuplicates(reg.plugins_installed)
    /\ NoDuplicates(getActivePlugins(World(OkEnv)))
    /\ NoDuplicates(getInstalledPlugins(World(OkEnv)))
    /\ getAllMetaData(World(OkEnv), FALSE).w.exc = "none"
       => NoDuplicates([i \in 1..Len(getAllMetaData(World(OkEnv), FALSE).r) |->
                           getAllMetaData(World(OkEnv), FALSE).r[i][1]])

\* C17: every id that isActivePlugin reports as enabled is in the installed list, not in
\* the outdated list and not in the distrusted set.
C17_EnabledIsInstalledAndTrusted ==
    \A id \in Ids :
        isActivePlugin(World(OkEnv), id)
        => /\ In(id, reg.plugins_installed)
           /\ ~In(id, reg.outdated_plugins)
           /\ ~In(id, reg.distrusted_plugin_ids)

\* C18: uninstallPlugin of an installed plugin with no pending install puts the id once in
\* to_remove, saves, drops the id from the loaded plugins and from what getInstalledPlugins
\* returns, and no later getPluginObject or loadPlugins loads the plugin again.
C18_UninstalledStaysUnloaded ==
    phase = "running"
    => \A id \in cfg.targets :
          (In(id, reg.plugins_installed) /\ id \notin DOMAIN reg.plugins_to_install)
          => /\ Count(uninstallPlugin(World(OkEnv), id).reg.plugins_to_remove, id) = 1
             /\ In(id, uninstallPlugin(World(OkEnv), id).fs.file.data.to_remove)
             /\ id \notin uninstallPlugin(World(OkEnv), id).reg.plugins
             /\ ~In(id, getInstalledPlugins(uninstallPlugin(World(OkEnv), id)))
             /\ id \notin getPluginObject(uninstallPlugin(World(OkEnv), id), id).reg.plugins
             /\ id \notin loadPlugins(uninstallPlugin(World(OkEnv), id)).reg.plugins

\* What an install or uninstall request leaves: the disabled, to-install, to-remove and
\* installed lists in memory, and plugins.json.
RequestState(w) ==
    <<w.reg.disabled_plugins, w.reg.plugins_to_install, w.reg.plugins_to_remove,
      w.reg.plugins_installed, w.fs.file>>

\* C19: from every state (here: those whose installed list holds no id twice),
\* uninstallPlugin(id) twice in a row leaves the same in-memory and persisted state as
\* once, and so does installPlugin of the same archive twice.
C19_RequestsIdempotent ==
    (phase = "running" /\ NoDuplicates(reg.plugins_installed))
    => /\ \A id \in cfg.targets :
             RequestState(uninstallPlugin(uninstallPlugin(World(OkEnv), id), id))
             = RequestState(uninstallPlugin(World(OkEnv), id))
       /\ \A archive \in Archives(cfg.targets) :
             RequestState(installPlugin(installPlugin(World(OkEnv), archive), archive))
             = RequestState(installPlugin(World(OkEnv), archive))

\* C20: installPlugin and uninstallPlugin leave the plugin folders as they are:
\* installPlugin at most adds the archive of its id to the cache, uninstallPlugin leaves
\* the cache alone, and the folders change in the startup pass only.
C20_RequestsLeaveFolders ==
    [][/\ obs'.op[1] = "installPlugin"
          => /\ fs'.user = fs.user
             /\ fs.cache \subseteq fs'.cache
             /\ fs'.cache \subseteq fs.cache \cup {obs'.op[2]}
       /\ obs'.op[1] = "uninstallPlugin"
          => /\ fs'.user = fs.user
             /\ fs'.cache = fs.cache
       /\ fs'.user # fs.user => obs'.op[1] = "startup"]_vars

\* C20: uninstallPlugin has returned ok for a plugin that had no pending install: the id
\* is scheduled for removal and its folder is still there.
C20_ScheduledFolderStillThere ==
    \E id \in Ids :
        /\ obs.op = <<"uninstallPlugin", id>>
        /\ obs.result = "ok"
        /\ In(id, reg.plugins_to_remove)
        /\ ~In(id, reg.plugins_installed)
        /\ fs.user[id] = "ok"

\* C21: the startup pass runs to completion whatever the folders and archives of the
\* pending ids are like, and when it has saved, plugins.json holds no pending removal and
\* no pending install.
C21_StartupPassCompletes ==
    /\ phase # "crashed"
    /\ (phase = "running" /\ obs.op = <<"startup", "">> /\ ~obs.lostWrite)
       => /\ fs.file.data.to_remove = <<>>
          /\ fs.file.data.to_install = {}

\* The pending installs a start-up pass finds: what it read from plugins.json.
PendingInstalls(env) ==
    DOMAIN MergeLegacy(ReadPluginData(World(env))).reg.plugins_to_install

\* A new process on the disk that world w leaves.
NewProcess(w) ==
    [World(OkEnv) EXCEPT !.fs = w.fs, !.prefs = w.prefs, !.reg = NewRegistry]

\* C22: whatever fails while a pending install is materialized, a startup pass whose
\* removals went through attempts every pending install, installs those whose archive can
\* be extracted, clears the pending-install list, returns normally and, its save
\* succeeding, leaves no install for the next startup to retry.
C22_FailedInstallIsCaught ==
    phase = "constructed"
    => \A env \in Envs :
          LET r == initializeBeforePluginsAreLoaded(World(env)) IN
          In(<<"clear_remove", "">>, r.trace)
          => /\ r.exc = "none"
             /\ \A id \in PendingInstalls(env) :
                   /\ In(<<"install", id>>, r.trace)
                   /\ (id \in fs.cache /\ env.extract = "ok") => r.fs.user[id] = "ok"
             /\ r.reg.plugins_to_install = EmptyDict
             /\ env.save = "ok"
                => /\ r.fs.file.data.to_install = {}
                   /\ Events(initializeBeforePluginsAreLoaded(NewProcess(r)).trace,
                             "install") = {}

\* C22: a startup pass had "a" and "b" to install, the archive of "a" was missing, and "b"
\* was installed after the failure; the pass returned and saved an empty pending list.
C22_InstalledAfterFailure ==
    /\ phase = "running"
    /\ obs.op = <<"startup", "">>
    /\ ~obs.lostWrite
    /\ In(<<"install", "a">>, obs.startup)
    /\ In(<<"install", "b">>, obs.startup)
    /\ "a" \notin fs.cache
    /\ fs.user["a"] = "none"
    /\ fs.user["b"] = "ok"
    /\ fs.file.data.to_install = {}

\* The pending removals a start-up pass finds: plugins.json's and the legacy preference's.
PendingRemovals(env) ==
    MergeLegacy(ReadPluginData(World(env))).reg.plugins_to_remove

\* C23: when the deletion of a pending removal's folder fails, the failure leaves the
\* startup pass: the removal that failed is the last thing the pass did, no later
\* removal and no install is applied, and plugins.json is as it was before the pass.
C23_RemovalFailurePropagates ==
    phase = "constructed"
    => \A env \in Envs :
          LET r == initializeBeforePluginsAreLoaded(World(env))
              pending == PendingRemovals(env)
              n == Cardinality(Events(r.trace, "remove"))
          IN  /\ (pending # <<>> /\ (env.rmtree = "fail" \/ fs.user[pending[1]] = "none"))
                 => r.exc \in {"OSError", "FileNotFoundError"}
              /\ r.exc # "none"
                 => /\ r.exc \in {"OSError", "FileNotFoundError"}
                    /\ n \in 1..Len(pending)
                    /\ r.trace[Len(r.trace)] = <<"remove", pending[n]>>
                    /\ \A i \in 1..Len(r.trace) :
                          r.trace[i][1] \in {"read", "remove"}
                    /\ Events(r.trace, "install") = {}
                    /\ r.fs.file = fs.file
                    /\ r.fs.cache = fs.cache
                    /\ \A id \in Ids :
                          r.fs.user[id] # fs.user[id]
                          => \E i \in 1..(n - 1) : pending[i] \in {id, ""}

\* C23: a startup pass with two pending removals and a pending install deleted the first
\* folder and failed on the second: the process did not get past the pass, the install
\* was not applied and plugins.json still holds both pending sets.
C23_SecondRemovalFailed ==
    /\ phase = "crashed"
    /\ obs.op = <<"startup", "">>
    /\ Cardinality(Events(obs.startup, "remove")) = 2
    /\ Events(obs.startup, "install") = {}
    /\ Len(fs.file.data.to_remove) = 2
    /\ fs.file.data.to_install # {}
    /\ fs.user[fs.file.data.to_remove[1]] = "none"

\* C24: with trust checking on, isBundledPlugin is true only for a plugin whose first
\* location, in the order of the plugin locations, is the installation root, and a plugin
\* loaded from another root has passed the signature check.
C24_UserRootNeverBundled ==
    reg.check_if_trusted
    => \A id \in cfg.targets :
          LET first == LocateFirst(World(OkEnv), id, reg.plugin_locations).r IN
          /\ isBundledPlugin(World(OkEnv), id).r => InInstallPrefix(first)
          /\ (id \in reg.found_plugins /\ ~InInstallPrefix(first))
             => In(id, reg.checked_plugin_ids)

\* C25: loadPlugin of an id in the disabled set does not invoke register, does not add the
\* id to the loaded plugins, does not raise, and leaves the disabled set and plugins.json
\* as they are (here for the plugins whose getMetaData() does not raise).
C25_DisabledIsSkipped ==
    phase = "running"
    => \A id \in cfg.targets :
          (In(id, reg.disabled_plugins) /\ MetaDataCall(cfg.pkg[id]) = "ok")
          => LET r == loadPlugin(World(OkEnv), id) IN
             /\ ~In(<<"register", id>>, r.trace)
             /\ r.reg.plugins = reg.plugins
             /\ r.exc = "none"
             /\ r.reg.disabled_plugins = reg.disabled_plugins
             /\ r.fs.file = fs.file

\* What a call leaves when the lock, the write or the read of plugins.json fails, against
\* what it leaves when they succeed: it does not raise, the registry is the same, and the
\* file is as it was before the call.
SameButNotSaved(failed, succeeded) ==
    /\ failed.exc = "none"
    /\ failed.reg = succeeded.reg
    /\ failed.fs.file = fs.file

\* C26: a failure of the lock or of the write of plugins.json never reaches the caller of
\* disablePlugin, enablePlugin, installPlugin, uninstallPlugin or of the startup pass:
\* the call completes with its in-memory changes made and plugins.json left as it was.
C26_PersistenceFailureNotRaised ==
    \A env \in {e \in CallEnvs : e.save # "ok"} :
        /\ phase = "constructed"
           => SameButNotSaved(initializeBeforePluginsAreLoaded(World(env)),
                              initializeBeforePluginsAreLoaded(World(OkEnv)))
        /\ phase = "running"
           => /\ \A id \in cfg.targets :
                    /\ SameButNotSaved(disablePlugin(World(env), id),
                                       disablePlugin(World(OkEnv), id))
                    /\ SameButNotSaved(enablePlugin(World(env), id),
                                       enablePlugin(World(OkEnv), id))
                    /\ SameButNotSaved(uninstallPlugin(World(env), id),
                                       uninstallPlugin(World(OkEnv), id))
              /\ \A archive \in Archives(cfg.targets) :
                    SameButNotSaved(installPlugin(World(env), archive),
                                    installPlugin(World(OkEnv), archive))

\* C27 as stated: a startup pass that completes leaves every id of the legacy disabled list
\* in the disabled set, without an id twice, has treated every id of the legacy to-remove
\* list as a pending removal and has emptied that list; initializeAfterPluginsAreLoaded
\* leaves both legacy preferences reset.
C27_LegacyMergedAndCleared ==
    [][/\ (phase = "constructed" /\ phase' = "running")
          => /\ \A id \in Range(prefs.disabled_plugins) : In(id, reg'.disabled_plugins)
             /\ NoDuplicates(reg'.disabled_plugins)
             /\ \A id \in Range(prefs.plugins_to_remove) : In(<<"remove", id>>, obs'.startup)
             /\ prefs'.plugins_to_remove = <<>>
       /\ obs'.op[1] = "initializeAfterPluginsAreLoaded"
          => prefs' = [disabled_plugins |-> <<>>, plugins_to_remove |-> <<>>]]_vars

\* C27 amended: as above, but an id of the legacy disabled list that the same pass
\* installs is enabled again by the installation; every other id of the list is in the
\* disabled set after the pass.
C27_LegacyMergedUnlessInstalled ==
    [][/\ (phase = "constructed" /\ phase' = "running")
          => /\ \A id \in Range(prefs.disabled_plugins) :
                   In(id, reg'.disabled_plugins) <=> ~In(<<"install", id>>, obs'.startup)
             /\ NoDuplicates(reg'.disabled_plugins)
             /\ \A id \in Range(prefs.plugins_to_remove) : In(<<"remove", id>>, obs'.startup)
             /\ prefs'.plugins_to_remove = <<>>
       /\ obs'.op[1] = "initializeAfterPluginsAreLoaded"
          => prefs' = [disabled_plugins |-> <<>>, plugins_to_remove |-> <<>>]]_vars

\* C27: the legacy lists disabled "b" and "a" and scheduled "b" for removal, plugins.json
\* already disabled "a"; the pass has run, "b" was removed, both are disabled once, and
\* initializeAfterPluginsAreLoaded has reset the preferences.
C27_LegacyMigrated ==
    /\ phase = "running"
    /\ obs.op = <<"initializeAfterPluginsAreLoaded", "">>
    /\ prefs = [disabled_plugins |-> <<>>, plugins_to_remove |-> <<>>]
    /\ reg.disabled_plugins = <<"a", "b">>
    /\ In(<<"remove", "b">>, obs.startup)
    /\ fs.user["b"] = "none"
    /\ fs.file.data.disabled = <<"a", "b">>

\* C28: identifying an archive gives the name of its first directory entry, and not-found
\* for a corrupt, missing, directory-less or otherwise unreadable archive; installPlugin
\* of an archive that is not identified returns None without raising and changes neither
\* the registry nor the disk.
C28_UnidentifiedArchiveChangesNothing ==
    phase = "running"
    => \A archive \in Archives(cfg.targets) \cup Unreadable(cfg.targets) :
          LET r == installPlugin(World(OkEnv), archive) IN
          IF archive.zip = "good"
          THEN /\ getPluginIdFromFile(archive) = [found |-> TRUE, id |-> archive.top]
               /\ r.ret = "ok"
               /\ archive.top \in DOMAIN r.reg.plugins_to_install
          ELSE /\ r.exc = "none"
               /\ r.ret = "None"
               /\ r.reg = reg
               /\ r.fs = fs

\* C29: a lookup in a search root leaves the root's location cache built, a cache that is
\* built never changes, and after a lookup in a root no plugin folder added to or removed
\* from the root changes what locating an id in that root gives.
C29_LocationCacheBuiltOnce ==
    phase = "running"
       => \A root \in Range(reg.plugin_locations), id \in Ids :
             LET w1 == LocateW(World(OkEnv), id, root) IN
             /\ root \in DOMAIN w1.reg.plugin_folder_cache
             /\ \A d \in {[fs EXCEPT !.user[x] = "ok", !.userdir = TRUE] : x \in Ids}
                          \cup {[fs EXCEPT !.user[x] = "none"] : x \in Ids},
                   other \in Ids :
                   LocateR([w1 EXCEPT !.fs = d], other, root) = LocateR(w1, other, root)

\* C30: for every discovered id, a getMetaData call that returned is followed by a
\* getMetaData call that returns the same content and does not read the descriptor again,
\* whether the first one gave the metadata or gave nothing, and whatever was called before.
C30_MetaDataResolvedOnce ==
    phase = "running"
    => \A id \in Range(findInstalledPlugins(World(OkEnv))) :
          LET g1 == getMetaData(World(OkEnv), id)
              g2 == getMetaData([g1.w EXCEPT !.trace = <<>>], id)
          IN  g1.w.exc = "none"
              => /\ g2.w.exc = "none"
                 /\ g2.r = g1.r
                 /\ ~In(<<"readDescriptor", id>>, g2.w.trace)

\* C31: getPluginObject(id) loads the plugin first when it is not loaded; it returns when
\* an object is registered for the id, and in every other case it ends with
\* PluginNotFoundError and with no other exception.
C31_ObjectOrPluginNotFound ==
    phase = "running"
    => \A id \in cfg.targets, env \in CallEnvs :
          LET w == getPluginObject(World(env), id)
          IN  /\ id \notin reg.plugins
                 => w.reg = loadPlugin(World(env), id).reg
              /\ IF id \in w.reg.plugin_objects
                 THEN w.exc = "none"
                 ELSE w.exc = "PluginNotFoundError"

\* Where an event that occurs once stands in a trace.
Pos(tr, ev) == CHOOSE i \in 1..Len(tr) : tr[i] = ev

\* The (type, object) pairs of what a register entry point returned.
Pairs(returned) ==
    UNION {{<<returned[i].type, returned[i].objs[j]>> : j \in 1..Len(returned[i].objs)} :
              i \in 1..Len(returned)}

C33_NoBlankRemoval ==
    /\ \A i \in 1..Len(obs.startup) :
          obs.startup[i][1] = "remove" => obs.startup[i][2] \in Ids
    /\ fs.userdir

\* C34: after a start-up pass that materialized the pending install of an id, the id is not
\* in the disabled list, whether the archive was extracted or not, and when the save that
\* ends the pass succeeded the id is not in the disabled list of plugins.json either.
C34_InstalledIsEnabled ==
    (phase = "running" /\ obs.op[1] = "startup")
    => \A id \in Ids :
          In(<<"install", id>>, obs.startup)
          => /\ ~In(id, reg.disabled_plugins)
             /\ ~obs.lostWrite
                => /\ fs.file.state = "ok"
                   /\ ~In(id, fs.file.data.disabled)

\* C34 witness: plugin "a" was disabled in the file of the earlier run and in the legacy
\* preference, the pass tried to install it, the extraction broke off, and "a" is enabled
\* in memory and in the file.
C34_EnabledAfterFailedExtraction ==
    /\ phase = "running"
    /\ obs.op[1] = "startup"
    /\ In("a", prefs.disabled_plugins)
    /\ In(<<"install", "a">>, obs.startup)
    /\ fs.user["a"] = "partial"
    /\ ~obs.lostWrite
    /\ ~In("a", reg.disabled_plugins)
    /\ ~In("a", fs.file.data.disabled)

\* C35: starting from a plugins.json without duplicates, the disabled list and the
\* to-remove list never hold an id twice, whatever legacy preferences were merged and
\* whatever was disabled, enabled, installed and uninstalled; and after enablePlugin(id)
\* the id is not in the disabled list.
C35_ListsDuplicateFree ==
    /\ NoDuplicates(reg.disabled_plugins)
    /\ NoDuplicates(reg.plugins_to_remove)
    /\ fs.file.state = "ok"
       => NoDuplicates(fs.file.data.disabled) /\ NoDuplicates(fs.file.data.to_remove)
    /\ \A id \in Ids : obs.op = <<"enablePlugin", id>> => ~In(id, reg.disabled_plugins)

\* C35 witness: the legacy preference named "a" twice, "a" was disabled by the merge, and
\* one enablePlugin("a") has taken it out of the disabled list.
C35_EnabledAfterDoubleLegacyEntry ==
    /\ phase = "running"
    /\ obs.op = <<"enablePlugin", "a">>
    /\ Count(prefs.disabled_plugins, "a") = 2
    /\ ~In("a", reg.disabled_plugins)
    /\ In("b", reg.disabled_plugins)

\* C36: getPluginPath(id) never raises; it gives the plugin's directory whenever the module
\* of the plugin can be found, loaded or not, and the not-found value otherwise.
C36_PathOfEveryFoundPlugin ==
    phase = "running"
    => \A id \in cfg.targets :
          LET g == getPluginPath(World(OkEnv), id)
              found == id \in reg.plugins \/ findPlugin(World(OkEnv), id).r
          IN  /\ g.w.exc = "none"
              /\ g.r = IF found THEN "path" ELSE "None"

\* The rows a dataChanged signal names.
RowsOf(s) == {r \in 0..MaxLen + 1 : s.first >= 0 /\ s.first <= r /\ r <= s.last}

\* C37: setItems(new) emits, in this order, one beginInsertRows/endInsertRows pair around
\* the replacement exactly when the new list is longer than the old one, one
\* beginRemoveRows/endRemoveRows pair exactly when it is shorter and neither when the
\* lengths are equal, then dataChanged for the rows both lists have, then itemsChanged;
\* afterwards the items are the new list and count is its length.
C37_SetItemsSignalOrder ==
    [][obs'.op[1] = "setItems"
       => LET old == Len(items)
              new == Len(items')
              rows == CASE new > old -> <<"beginInsertRows", "endInsertRows">>
                        [] new < old -> <<"beginRemoveRows", "endRemoveRows">>
                        [] OTHER -> <<>>
              n == Len(rows)
              common == IF old < new THEN old ELSE new
          IN  /\ [i \in 1..Len(signals') |-> signals'[i].sig]
                    = rows \o <<"dataChanged", "itemsChanged">>
              /\ n = 2
                 => /\ signals'[1].count = old
                    /\ signals'[2].count = new
                    /\ signals'[1].first = common
                    /\ signals'[1].last = (IF old < new THEN new ELSE old) - 1
              /\ RowsOf(signals'[n + 1]) = 0..(common - 1)
              /\ signals'[n + 1].count = new
              /\ signals'[n + 2].count = new
              /\ count(items') = new]_vars

\* C37 witness: setItems has replaced a list by a shorter, non-empty one.
C37_ReplacedByShorterList ==
    /\ obs.op[1] = "setItems"
    /\ Len(signals) = 4
    /\ signals[1].sig = "beginRemoveRows"
    /\ signals[1].count > count(items)
    /\ count(items) > 0

\* C38: a start-up pass that had an install or a removal of an id to materialize raises
\* nothing on account of the memoized bundled decision of the id, memoized before the pass
\* or not, and leaves no memoized decision for the id.
C38_BundledDecisionDiscarded ==
    [][obs'.op[1] = "startup"
       => \A id \in Ids :
             (\/ id \in DOMAIN JsonDict(fs.file.data.to_install)
              \/ In(id, fs.file.data.to_remove))
             => /\ obs'.result # "AttributeError"
                /\ id \notin DOMAIN reg'.bundled_plugin_cache]_vars

====
